---- MODULE Spec2Model ----
(***************************************************************************)
(* RedisWeightsClient (czsc/traders/rwc.py): the publish protocol of the   *)
(* strategy-weights store, its wipe and its read-side reconstruction.      *)
(*                                                                         *)
(* Units.  A weight is an integer number of 1e-6, so 0.5 is 500000 and the *)
(* script's 0.00001 is 10.  An event time given by a caller is a number of *)
(* ticks, Res ticks to the second; a key and a stored "dt" field carry     *)
(* whole seconds only.                                                     *)
(***************************************************************************)
EXTENDS Integers, Sequences, FiniteSets, TLC

VARIABLES
    rec,       \* event records   <prefix>:<strategy>:<symbol>:<YYYYMMDDHHMMSS>
    last,      \* LastPointers    <prefix>:<strategy>:<symbol>:LAST
    idx,       \* ordered indexes <prefix>:<strategy>:<symbol>
    meta,      \* <prefix>:META:<strategy>
    mark,      \* <prefix>:LAST:<strategy>
    hb,        \* <prefix>:<heartbeat-prefix>:<strategy>
    names,     \* <prefix>:StrategyNames
    pubsub,    \* the broadcasts sent so far, in order
    trail,     \* history: the triples the script went through, in transaction order
    out,       \* what each client's last finished read returned
    pc,        \* where each client is in the call it is making
    loc,       \* the locals of that call
    ret,       \* what each client's last finished call returned
    now,       \* the wall clock read by datetime.now(), in calls begun
    calls      \* history: the publish calls finished, with their results

store == <<rec, last, idx, meta, mark, hb, names>>
vars == <<rec, last, idx, meta, mark, hb, names, pubsub, trail, pc, loc, ret, out, now, calls>>

(***************************************************************************)
(* Bounds and input domains                                                *)
(***************************************************************************)
Res == 2
MaxSec == 2
MaxPubCalls == 2
MaxMixCalls == 2
MaxRows == 3
MaxWipeCalls == 2
MaxBeatCalls == 3
MaxMetaCalls == 3

Secs == 0..MaxSec
\* each whole second, and an instant inside it
Instants(secs) == {sec * Res + f : sec \in secs, f \in {0, 1}}
Ticks == Instants(Secs)
Symbols == {"A", "B"}
Weights == {0, 300000, 500000, 500005}
Clients == {"c1", "c2"}
\* a client made for another strategy under the same key prefix
Neighbours == {"c3"}
None == -1
NaN == -2
NoRef == "{}"

(***************************************************************************)
(* Program constants and small helpers                                     *)
(***************************************************************************)
Tolerance == 10

abs(x) == IF x < 0 THEN -x ELSE x

\* the strategy_name each client was made with: the name of the neighbour has
\* the name of the others as its leading part
strategy_name(c) == IF c \in Neighbours THEN "S2" ELSE "S"

\* the words that key names are made of, letter by letter
Text(word) ==
    CASE word = "S" -> <<"S">>
      [] word = "S2" -> <<"S", "2">>
      [] word = "META" -> <<"M", "E", "T", "A">>
      [] word = "LAST" -> <<"L", "A", "S", "T">>
      [] word = "heartbeat" -> <<"h", "e", "a", "r", "t", "b", "e", "a", "t">>
      [] word = "StrategyNames" ->
             <<"S", "t", "r", "a", "t", "e", "g", "y", "N", "a", "m", "e", "s">>

\* the beginning "<a>:<b>" of a key name after "<prefix>:"
join(a, b) == Text(a) \o <<":">> \o Text(b)

startswith(text, head) ==
    Len(head) <= Len(text) /\ SubSeq(text, 1, Len(head)) = head

\* dt.strftime("%Y%m%d%H%M%S"): the sub-second part of a time is dropped
strftime(dt) == dt \div Res

\* pd.to_datetime of a stored "dt" field: a whole second, as a time
to_datetime(sec) == sec * Res

Put(f, k, v) == [x \in (DOMAIN f) \cup {k} |-> IF x = k THEN v ELSE f[x]]
Del(f, ks) == [x \in (DOMAIN f) \ ks |-> f[x]]
Empty == [x \in {} |-> 0]

(***************************************************************************)
(* The publish script (register_lua_publish)                               *)
(***************************************************************************)
\* what the script sees and changes
Db == [rec |-> rec, last |-> last, idx |-> idx, pubsub |-> pubsub, trail |-> trail]

\* a key <prefix>:<strategy>:<symbol>:<YYYYMMDDHHMMSS> is <<strategy, symbol, sec>>;
\* split_str[1] .. ':' .. split_str[2] .. ':' .. split_str[3]
model_key(key) == <<key[1], key[2]>>

if_pass_lt(db, key, sig, overwrite) ==
    IF overwrite # 0
    THEN FALSE
    ELSE ~ (model_key(key) \notin DOMAIN db.last
            \/ abs(sig - db.last[model_key(key)].weight) < Tolerance)

if_pass_exact(db, key, sig, overwrite) ==
    IF overwrite # 0
    THEN FALSE
    ELSE ~ (model_key(key) \notin DOMAIN db.last
            \/ abs(sig - db.last[model_key(key)].weight) > 0)

if_pass_dedup(db, key, sig, overwrite) ==
    ~ (model_key(key) \notin DOMAIN db.last
       \/ abs(sig - db.last[model_key(key)].weight) > Tolerance)

\* if_pass of the script: TRUE when the triple is skipped
if_pass(db, key, sig, overwrite) ==
    IF overwrite # 0
    THEN FALSE
    ELSE ~ (model_key(key) \notin DOMAIN db.last
            \/ abs(sig - db.last[model_key(key)].weight) > Tolerance)

\* the fields both HMSETs write; at_str is the key's time, reformatted
hash_fields(key, sig, price, ref_str, update_time) ==
    [symbol |-> key[2], weight |-> sig, dt |-> key[3],
     update_time |-> update_time, price |-> price, ref |-> ref_str]

\* PUBLISH pubKey key:sig:price:ref_str
message(key, sig, price, ref_str) ==
    [channel |-> <<key[1], key[2]>>, key |-> key, weight |-> sig, price |-> price,
     ref |-> ref_str]

\* the history entry of one triple: the fields it carries and whether it was accepted
Seen(key, sig, price, ref_str, overwrite, update_time, ok) ==
    [key |-> key, overwrite |-> overwrite, ok |-> ok,
     fields |-> hash_fields(key, sig, price, ref_str, update_time)]

zadd(ix, mk, sec) == Put(ix, mk, (IF mk \in DOMAIN ix THEN ix[mk] ELSE {}) \cup {sec})

accept_keep_rec(db, key, sig, price, ref_str, overwrite, update_time) ==
    [rec |-> IF key \in DOMAIN db.rec
             THEN db.rec
             ELSE Put(db.rec, key, hash_fields(key, sig, price, ref_str, update_time)),
     last |-> Put(db.last, model_key(key), hash_fields(key, sig, price, ref_str, update_time)),
     idx |-> zadd(db.idx, model_key(key), key[3]),
     pubsub |-> Append(db.pubsub, message(key, sig, price, ref_str)),
     trail |-> Append(db.trail, Seen(key, sig, price, ref_str, overwrite, update_time, TRUE))]

accept_silent(db, key, sig, price, ref_str, overwrite, update_time) ==
    [rec |-> Put(db.rec, key, hash_fields(key, sig, price, ref_str, update_time)),
     last |-> Put(db.last, model_key(key), hash_fields(key, sig, price, ref_str, update_time)),
     idx |-> zadd(db.idx, model_key(key), key[3]),
     pubsub |-> db.pubsub,
     trail |-> Append(db.trail, Seen(key, sig, price, ref_str, overwrite, update_time, TRUE))]

\* the branch "if not if_pass": ZADD, HMSET key, HMSET LAST, cnt + 1, PUBLISH
accept(db, key, sig, price, ref_str, overwrite, update_time) ==
    [rec |-> Put(db.rec, key, hash_fields(key, sig, price, ref_str, update_time)),
     last |-> Put(db.last, model_key(key), hash_fields(key, sig, price, ref_str, update_time)),
     idx |-> zadd(db.idx, model_key(key), key[3]),
     pubsub |-> Append(db.pubsub, message(key, sig, price, ref_str)),
     trail |-> Append(db.trail, Seen(key, sig, price, ref_str, overwrite, update_time, TRUE))]

\* a skipped triple: nothing is written
skip(db, key, sig, price, ref_str, overwrite, update_time) ==
    [db EXCEPT !.trail = Append(db.trail,
                                Seen(key, sig, price, ref_str, overwrite, update_time, FALSE))]

\* the loop "for i = 1, #KEYS" from i on; ARGV = <<overwrite, update_time, sig1,
\* price1, ref1, sig2, ...>>, each triple seeing the writes of those before it
RECURSIVE lua_loop(_, _, _, _, _)
lua_loop(db, KEYS, ARGV, i, cnt) ==
    IF i > Len(KEYS)
    THEN [db |-> db, cnt |-> cnt]
    ELSE LET key == KEYS[i]
             sig == ARGV[3 + 3 * (i - 1)]
             price == ARGV[4 + 3 * (i - 1)]
             ref_str == ARGV[5 + 3 * (i - 1)]
         IN  IF if_pass(db, key, sig, ARGV[1])
             THEN lua_loop(skip(db, key, sig, price, ref_str, ARGV[1], ARGV[2]),
                           KEYS, ARGV, i + 1, cnt)
             ELSE lua_loop(accept(db, key, sig, price, ref_str, ARGV[1], ARGV[2]),
                           KEYS, ARGV, i + 1, cnt + 1)

lua_publish(db, KEYS, ARGV) == lua_loop(db, KEYS, ARGV, 1, 0)

\* one call of the script by client c, as one step of the store
RunScript(c, KEYS, ARGV, r) ==
    /\ r = lua_publish(Db, KEYS, ARGV)
    /\ rec' = r.db.rec
    /\ last' = r.db.last
    /\ idx' = r.db.idx
    /\ pubsub' = r.db.pubsub
    /\ trail' = r.db.trail

(***************************************************************************)
(* publish                                                                 *)
(***************************************************************************)
\* get_last_times(symbol) for one symbol: the LastPointer's dt, or None
get_last_times(st, sy) ==
    IF <<st, sy>> \in DOMAIN last THEN to_datetime(last[<<st, sy>>].dt) ELSE None

is_stale_lt(dt, last_dt) == last_dt # None /\ dt < last_dt

\* "last_dt is not None and dt <= last_dt"
is_stale(dt, last_dt) == last_dt # None /\ dt <= last_dt

Idle(c) == pc[c] \in {"idle", "done"}

\* the key of an event of strategy st
make_key(st, symbol, dt) == <<st, symbol, strftime(dt)>>

\* publish up to the script call: the check against the last time, then the key
PublishCall(c, symbol, dt, weight, price, overwrite) ==
    /\ Idle(c)
    /\ now' = now + 1
    /\ IF ~overwrite /\ is_stale(dt, get_last_times(strategy_name(c), symbol))
       THEN /\ pc' = [pc EXCEPT ![c] = "done"]
            /\ ret' = [ret EXCEPT ![c] = 0]
            /\ loc' = [loc EXCEPT ![c] = Empty]
            /\ calls' = Append(calls,
                   [op |-> "publish", client |-> c, symbol |-> symbol, dt |-> dt,
                    weight |-> weight, overwrite |-> overwrite, ret |-> 0])
       ELSE /\ pc' = [pc EXCEPT ![c] = "lua"]
            /\ loc' = [loc EXCEPT ![c] =
                   [symbol |-> symbol, dt |-> dt, weight |-> weight, overwrite |-> overwrite,
                    keys |-> <<make_key(strategy_name(c), symbol, dt)>>,
                    args |-> <<IF overwrite THEN 1 ELSE 0, now, weight, price, NoRef>>]]
            /\ UNCHANGED <<ret, calls>>
    /\ UNCHANGED <<store, pubsub, trail, out>>

\* the script call of publish, and its return
PublishLua(c) ==
    /\ pc[c] = "lua"
    /\ \E r \in {lua_publish(Db, loc[c].keys, loc[c].args)} :
           /\ RunScript(c, loc[c].keys, loc[c].args, r)
           /\ ret' = [ret EXCEPT ![c] = r.cnt]
           /\ calls' = Append(calls,
                  [op |-> "publish", client |-> c, symbol |-> loc[c].symbol,
                   dt |-> loc[c].dt, weight |-> loc[c].weight,
                   overwrite |-> loc[c].overwrite, ret |-> r.cnt])
    /\ pc' = [pc EXCEPT ![c] = "done"]
    /\ loc' = [loc EXCEPT ![c] = Empty]
    /\ UNCHANGED <<meta, mark, hb, names, out, now>>

(***************************************************************************)
(* publish_dataframe                                                       *)
(***************************************************************************)
\* a row of the input frame: [symbol, dt, weight]; no price and no ref column, so
\* price is 0 and ref is "{}" (lines 196-199)
Row(symbol, dt, weight) == [symbol |-> symbol, dt |-> dt, weight |-> weight]

\* groupby("symbol") walks the symbols in sorted order
SymbolOrder == <<"A", "B">>
rank(symbol) == CHOOSE i \in 1..Len(SymbolOrder) : SymbolOrder[i] = symbol

\* the row just before e among the rows of its symbol, sorted by dt
before(df, e) == {f \in df : f.symbol = e.symbol /\ f.dt < e.dt}
prev_row(df, e) == CHOOSE f \in before(df, e) : \A g \in before(df, e) : g.dt <= f.dt

diff_kept_global(df) ==
    {e \in df : {f \in df : f.dt < e.dt} = {}
                \/ (CHOOSE f \in {g \in df : g.dt < e.dt} :
                        \A g \in {h \in df : h.dt < e.dt} : g.dt <= f.dt).weight # e.weight}

\* dfg[dfg["weight"].diff().fillna(1) != 0], per symbol
diff_kept(df) ==
    {e \in df : before(df, e) = {} \/ e.weight - prev_row(df, e).weight # 0}

\* concat of the groups, then sort_values(["dt"]): by dt, rows of equal dt staying
\* in the order of the concat, that is by symbol
RECURSIVE sort_values(_)
sort_values(df) ==
    IF df = {}
    THEN <<>>
    ELSE LET m == CHOOSE e \in df : \A f \in df :
                      e.dt < f.dt \/ (e.dt = f.dt /\ rank(e.symbol) <= rank(f.symbol))
         IN  <<m>> \o sort_values(df \ {m})

\* get_symbols: the symbols of the keys <prefix>:<strategy>:*:LAST
get_symbols(st) == {k[2] : k \in {x \in DOMAIN last : x[1] = st}}

RECURSIVE after_last_ge(_, _, _)
after_last_ge(rows, time, g) ==
    IF g > Len(SymbolOrder)
    THEN <<>>
    ELSE LET symbol == SymbolOrder[g]
             keep(e) == /\ e.symbol = symbol
                        /\ (symbol \in DOMAIN time => e.dt >= time[symbol])
         IN  SelectSeq(rows, keep) \o after_last_ge(rows, time, g + 1)

\* lines 205-210: the rows regrouped by symbol, each group cut to the rows after
\* the symbol's last time; _time.get(symbol) is None for a symbol not in _time
RECURSIVE after_last(_, _, _)
after_last(rows, time, g) ==
    IF g > Len(SymbolOrder)
    THEN <<>>
    ELSE LET symbol == SymbolOrder[g]
             keep(e) == /\ e.symbol = symbol
                        /\ (symbol \in DOMAIN time => e.dt > time[symbol])
         IN  SelectSeq(rows, keep) \o after_last(rows, time, g + 1)

\* lines 213-221: the keys and the flat argument list of the rows
RECURSIVE make_keys(_, _)
make_keys(st, rows) ==
    IF rows = <<>> THEN <<>>
    ELSE <<make_key(st, Head(rows).symbol, Head(rows).dt)>> \o make_keys(st, Tail(rows))

RECURSIVE make_args(_)
make_args(rows) ==
    IF rows = <<>> THEN <<>>
    ELSE <<Head(rows).weight, 0, NoRef>> \o make_args(Tail(rows))

\* keys[a:b] of Python, as a sequence
slice(seq, a, b) == SubSeq(seq, a + 1, IF b < Len(seq) THEN b ELSE Len(seq))

\* lines 229-234: the keys of the chunk at i
tmp_keys(keys, i, batch_size) ==
    IF i + batch_size < Len(keys)
    THEN slice(keys, i, i + batch_size)
    ELSE slice(keys, i, Len(keys))

tmp_args_first(keys, args, overwrite, udt, i, batch_size) ==
    IF i + batch_size < Len(keys)
    THEN <<overwrite, udt>> \o slice(args, 0, 3 * batch_size)
    ELSE <<overwrite, udt>> \o slice(args, 0, 3 * (Len(keys) - i))

\* lines 229-234: the arguments of the chunk at i
tmp_args(keys, args, overwrite, udt, i, batch_size) ==
    IF i + batch_size < Len(keys)
    THEN <<overwrite, udt>> \o slice(args, 3 * i, 3 * (i + batch_size))
    ELSE <<overwrite, udt>> \o slice(args, 3 * i, 3 * Len(keys))

\* lines 213-227: the locals of the chunk loop over the rows to submit
Loop(c, df, overwrite, batch_size, rows) ==
    [df |-> df, overwrite |-> IF overwrite THEN 1 ELSE 0, batch_size |-> batch_size,
     rows |-> rows, keys |-> make_keys(strategy_name(c), rows), args |-> make_args(rows),
     udt |-> now, i |-> 0, pub_cnt |-> 0]

\* lines 182-199, and for overwrite=True lines 213-227
BatchCall(c, df, overwrite, batch_size) ==
    /\ Idle(c)
    /\ now' = now + 1
    /\ IF overwrite
       THEN /\ pc' = [pc EXCEPT ![c] = "chunk"]
            /\ loc' = [loc EXCEPT ![c] =
                           Loop(c, df, TRUE, batch_size, sort_values(diff_kept(df)))]
       ELSE /\ pc' = [pc EXCEPT ![c] = "symbols"]
            /\ loc' = [loc EXCEPT ![c] =
                           [df |-> df, batch_size |-> batch_size,
                            rows |-> sort_values(diff_kept(df))]]
    /\ UNCHANGED <<store, pubsub, trail, ret, out, calls>>

\* get_last_times(): first get_symbols, one KEYS round trip
BatchSymbols(c) ==
    /\ pc[c] = "symbols"
    /\ pc' = [pc EXCEPT ![c] = "times"]
    /\ loc' = [loc EXCEPT ![c] =
                   [df |-> loc[c].df, batch_size |-> loc[c].batch_size, rows |-> loc[c].rows,
                    symbols |-> get_symbols(strategy_name(c))]]
    /\ UNCHANGED <<store, pubsub, trail, ret, out, calls, now>>

\* get_last_times(): the pipeline of HGETALLs, then lines 204-227; a symbol whose
\* LastPointer is gone gives an empty row, and x["symbol"] raises KeyError
BatchTimes(c) ==
    /\ pc[c] = "times"
    /\ IF \E symbol \in loc[c].symbols : <<strategy_name(c), symbol>> \notin DOMAIN last
       THEN /\ pc' = [pc EXCEPT ![c] = "raised"]
            /\ loc' = [loc EXCEPT ![c] = Empty]
       ELSE /\ pc' = [pc EXCEPT ![c] = "chunk"]
            /\ loc' = [loc EXCEPT ![c] =
                   Loop(c, loc[c].df, FALSE, loc[c].batch_size,
                        after_last(loc[c].rows,
                                   [symbol \in loc[c].symbols |->
                                        get_last_times(strategy_name(c), symbol)], 1))]
    /\ UNCHANGED <<store, pubsub, trail, ret, out, calls, now>>

\* one round of the loop at line 228
BatchChunk(c) ==
    /\ pc[c] = "chunk"
    /\ loc[c].i < Len(loc[c].keys)
    /\ \E r \in {lua_publish(Db, tmp_keys(loc[c].keys, loc[c].i, loc[c].batch_size),
                             tmp_args(loc[c].keys, loc[c].args, loc[c].overwrite,
                                      loc[c].udt, loc[c].i, loc[c].batch_size))} :
           /\ RunScript(c, tmp_keys(loc[c].keys, loc[c].i, loc[c].batch_size),
                        tmp_args(loc[c].keys, loc[c].args, loc[c].overwrite,
                                 loc[c].udt, loc[c].i, loc[c].batch_size), r)
           /\ loc' = [loc EXCEPT ![c].i = loc[c].i + loc[c].batch_size,
                                 ![c].pub_cnt = loc[c].pub_cnt + r.cnt]
    /\ UNCHANGED <<meta, mark, hb, names, pc, ret, out, calls, now>>

\* update_last: HSET <prefix>:LAST:<strategy>
update_last(st) == Put(mark, st, [name |-> st, time |-> now, kwargs |-> "{}"])

\* the loop is over: update_last, return pub_cnt
BatchDone(c) ==
    /\ pc[c] = "chunk"
    /\ loc[c].i >= Len(loc[c].keys)
    /\ mark' = update_last(strategy_name(c))
    /\ ret' = [ret EXCEPT ![c] = loc[c].pub_cnt]
    /\ calls' = Append(calls,
           [op |-> "batch", client |-> c, df |-> loc[c].df, overwrite |-> loc[c].overwrite # 0,
            batch_size |-> loc[c].batch_size, rows |-> loc[c].rows, keys |-> loc[c].keys,
            udt |-> loc[c].udt, ret |-> loc[c].pub_cnt])
    /\ pc' = [pc EXCEPT ![c] = "done"]
    /\ loc' = [loc EXCEPT ![c] = Empty]
    /\ UNCHANGED <<rec, last, idx, meta, hb, names, pubsub, trail, out, now>>

\* the frames of one to n rows over the given symbols, times and weights, no two
\* rows of a frame for the same symbol and time
Rows(symbols, ticks, weights) ==
    {Row(sy, dt, w) : sy \in symbols, dt \in ticks, w \in weights}
NoClash(df) == \A e \in df, f \in df : (e.symbol = f.symbol /\ e.dt = f.dt) => e = f
RECURSIVE FramesUpTo(_, _)
FramesUpTo(rows, n) ==
    IF n = 0
    THEN {{}}
    ELSE LET smaller == FramesUpTo(rows, n - 1)
         IN  smaller \cup {df \cup {e} : df \in smaller, e \in rows}
Frames(rows, n) == {df \in FramesUpTo(rows, n) : df # {} /\ NoClash(df)}

(***************************************************************************)
(* get_hist_weights                                                        *)
(***************************************************************************)
\* a set of whole seconds in ascending order
RECURSIVE ascending(_)
ascending(S) ==
    IF S = {}
    THEN <<>>
    ELSE LET m == CHOOSE x \in S : \A y \in S : x <= y
         IN  <<m>> \o ascending(S \ {m})

in_score_open(score, lo, hi) == lo < score /\ score < hi

\* min <= score <= max of ZRANGEBYSCORE
in_score(score, lo, hi) == lo <= score /\ score <= hi

\* ZRANGEBYSCORE model_key start_score end_score: the member keys, by score
zrangebyscore(ix, mk, lo, hi) ==
    IF mk \notin DOMAIN ix
    THEN <<>>
    ELSE LET scores == ascending({sec \in ix[mk] : in_score(sec, lo, hi)})
         IN  [i \in 1..Len(scores) |-> <<mk[1], mk[2], scores[i]>>]

\* HMGET key weight price ref, with the dt read off the key; a missing record
\* gives None for each field
hmget(r, key) ==
    IF key \in DOMAIN r
    THEN [dt |-> to_datetime(key[3]), weight |-> r[key].weight, price |-> r[key].price,
          ref |-> r[key].ref]
    ELSE [dt |-> to_datetime(key[3]), weight |-> None, price |-> None, ref |-> None]

\* lines 375-382: the scores of the two bounds, the range query, and the empty
\* frame when it finds nothing
HistCall(c, symbol, sdt, edt) ==
    /\ Idle(c)
    /\ LET key_list == zrangebyscore(idx, <<strategy_name(c), symbol>>,
                                     strftime(sdt), strftime(edt))
       IN  IF Len(key_list) = 0
           THEN /\ pc' = [pc EXCEPT ![c] = "done"]
                /\ loc' = [loc EXCEPT ![c] = Empty]
                /\ out' = [out EXCEPT ![c] =
                               [op |-> "hist", symbol |-> symbol, sdt |-> sdt, edt |-> edt,
                                rows |-> <<>>]]
           ELSE /\ pc' = [pc EXCEPT ![c] = "hmget"]
                /\ loc' = [loc EXCEPT ![c] =
                               [symbol |-> symbol, sdt |-> sdt, edt |-> edt,
                                key_list |-> key_list]]
                /\ out' = out
    /\ UNCHANGED <<store, pubsub, trail, ret, now, calls>>

\* lines 384-403: the pipeline of HMGETs and the frame built from it; the keys
\* came in score order, so sort_values("dt") leaves the rows as they are
HistFetch(c) ==
    /\ pc[c] = "hmget"
    /\ out' = [out EXCEPT ![c] =
                   [op |-> "hist", symbol |-> loc[c].symbol, sdt |-> loc[c].sdt,
                    edt |-> loc[c].edt,
                    rows |-> [i \in 1..Len(loc[c].key_list) |-> hmget(rec, loc[c].key_list[i])]]]
    /\ pc' = [pc EXCEPT ![c] = "done"]
    /\ loc' = [loc EXCEPT ![c] = Empty]
    /\ UNCHANGED <<store, pubsub, trail, ret, now, calls>>

(***************************************************************************)
(* get_all_weights                                                         *)
(***************************************************************************)
\* the keys <prefix>:<strategy>:*:* whose last part is 14 digits
event_keys(r, st) == {k \in DOMAIN r : k[1] = st}

\* pivot_table(index="dt", columns="symbol", values="weight").sort_index(): one
\* row per time in ascending order, one cell per symbol, NaN where the symbol has
\* no event at that time
pivot_table(r, st) ==
    LET index == ascending({k[3] : k \in event_keys(r, st)})
        columns == {k[2] : k \in event_keys(r, st)}
    IN  [i \in 1..Len(index) |->
            [dt |-> index[i],
             cells |-> [sy \in columns |->
                           IF <<st, sy, index[i]>> \in DOMAIN r
                           THEN r[<<st, sy, index[i]>>].weight
                           ELSE NaN]]]

not_filled(table, i, sy) == table[i].cells[sy]

\* ffill: a NaN cell takes the value of the cell above it, once that one is filled
RECURSIVE filled(_, _, _)
filled(table, i, sy) ==
    IF table[i].cells[sy] # NaN
    THEN table[i].cells[sy]
    ELSE IF i = 1 THEN NaN ELSE filled(table, i - 1, sy)

ffill(table) ==
    [i \in DOMAIN table |->
        [dt |-> table[i].dt,
         cells |-> [sy \in DOMAIN table[i].cells |-> filled(table, i, sy)]]]

fillna(table, v) ==
    [i \in DOMAIN table |->
        [dt |-> table[i].dt,
         cells |-> [sy \in DOMAIN table[i].cells |->
                       IF table[i].cells[sy] = NaN THEN v ELSE table[i].cells[sy]]]]

\* melt: one row per time and symbol
melt(table) ==
    {[dt |-> to_datetime(table[i].dt), symbol |-> sy, weight |-> table[i].cells[sy]] :
        i \in DOMAIN table, sy \in UNION {DOMAIN table[j].cells : j \in DOMAIN table}}

\* lines 442-445: "if sdt" and "if edt", a bound not given being None
clip(rows, sdt, edt) ==
    {x \in rows : (sdt # None => x.dt >= sdt) /\ (edt # None => x.dt <= edt)}

get_all_weights(r, st, sdt, edt) == clip(melt(fillna(ffill(pivot_table(r, st)), 0)), sdt, edt)

\* the whole call, one script call and the frame work; with no event record the
\* frame has no column and df["dt"] raises KeyError
MatrixCall(c, sdt, edt) ==
    /\ Idle(c)
    /\ IF event_keys(rec, strategy_name(c)) = {}
       THEN /\ pc' = [pc EXCEPT ![c] = "raised"]
            /\ out' = [out EXCEPT ![c] = [op |-> "raised", by |-> "matrix"]]
       ELSE /\ pc' = [pc EXCEPT ![c] = "done"]
            /\ out' = [out EXCEPT ![c] =
                           [op |-> "matrix", sdt |-> sdt, edt |-> edt,
                            rows |-> get_all_weights(rec, strategy_name(c), sdt, edt)]]
    /\ UNCHANGED <<store, pubsub, trail, loc, ret, now, calls>>

(***************************************************************************)
(* set_metadata, update_last as a call, the heartbeat thread, clear_all    *)
(***************************************************************************)
\* set_metadata up to the write: EXISTS, and the return when the metadata is there
\* and overwrite is not set
MetaCall(c, overwrite) ==
    /\ Idle(c)
    /\ IF strategy_name(c) \in DOMAIN meta
       THEN IF ~overwrite
            THEN pc' = [pc EXCEPT ![c] = "done"] /\ loc' = [loc EXCEPT ![c] = Empty]
            ELSE pc' = [pc EXCEPT ![c] = "meta_del"]
                 /\ loc' = [loc EXCEPT ![c] = [overwrite |-> overwrite]]
       ELSE pc' = [pc EXCEPT ![c] = "hset"]
            /\ loc' = [loc EXCEPT ![c] = [overwrite |-> overwrite]]
    /\ UNCHANGED <<store, pubsub, trail, ret, out, now, calls>>

\* self.r.delete(key)
MetaDelete(c) ==
    /\ pc[c] = "meta_del"
    /\ meta' = Del(meta, {strategy_name(c)})
    /\ pc' = [pc EXCEPT ![c] = "hset"]
    /\ UNCHANGED <<rec, last, idx, mark, hb, names, pubsub, trail, loc, ret, out, now, calls>>

\* self.r.hset(key, mapping=meta)
MetaHset(c) ==
    /\ pc[c] = "hset"
    /\ meta' = Put(meta, strategy_name(c), [name |-> strategy_name(c), update_time |-> now])
    /\ now' = now + 1
    /\ pc' = [pc EXCEPT ![c] = "sadd"]
    /\ UNCHANGED <<rec, last, idx, mark, hb, names, pubsub, trail, loc, ret, out, calls>>

\* self.r.sadd(StrategyNames, strategy_name)
MetaSadd(c) ==
    /\ pc[c] = "sadd"
    /\ names' = names \cup {strategy_name(c)}
    /\ pc' = [pc EXCEPT ![c] = "done"]
    /\ loc' = [loc EXCEPT ![c] = Empty]
    /\ UNCHANGED <<rec, last, idx, meta, mark, hb, pubsub, trail, ret, out, now, calls>>

\* update_last called on its own
UpdateLast(c) ==
    /\ Idle(c)
    /\ mark' = update_last(strategy_name(c))
    /\ now' = now + 1
    /\ pc' = [pc EXCEPT ![c] = "done"]
    /\ UNCHANGED <<rec, last, idx, meta, hb, names, pubsub, trail, loc, ret, out, calls>>

\* one round of the heartbeat thread of client c, whatever c is doing
Heartbeat(c) ==
    /\ hb' = Put(hb, strategy_name(c), now)
    /\ UNCHANGED <<rec, last, idx, meta, mark, names, pubsub, trail, pc, loc, ret, out, now, calls>>

\* KEYS <prefix>:<strategy>*: every key of the store whose name after
\* "<prefix>:" begins with the strategy name (a name without ":"); the name of
\* a record, LastPointer or index is its strategy, then ":" and the symbol
get_keys(st) ==
    [rec |-> {k \in DOMAIN rec : startswith(Text(k[1]) \o <<":">>, Text(st))},
     last |-> {k \in DOMAIN last : startswith(Text(k[1]) \o <<":">>, Text(st))},
     idx |-> {k \in DOMAIN idx : startswith(Text(k[1]) \o <<":">>, Text(st))},
     meta |-> {x \in DOMAIN meta : startswith(join("META", x), Text(st))},
     mark |-> {x \in DOMAIN mark : startswith(join("LAST", x), Text(st))},
     hb |-> {x \in DOMAIN hb : startswith(join("heartbeat", x), Text(st))},
     names |-> names # {} /\ startswith(Text("StrategyNames"), Text(st))]

\* lines 258-261: the keys found, and the three keys appended, so that the list
\* is never empty
WipeKeys(c) ==
    /\ Idle(c)
    /\ \E k \in {get_keys(strategy_name(c))} :
           loc' = [loc EXCEPT ![c] = [keys |-> k,
                                      meta |-> k.meta \cup {strategy_name(c)},
                                      mark |-> k.mark \cup {strategy_name(c)},
                                      hb |-> k.hb \cup {strategy_name(c)}]]
    /\ pc' = [pc EXCEPT ![c] = "confirm"]
    /\ UNCHANGED <<store, pubsub, trail, ret, out, now, calls>>

\* lines 267-271: the question put to the human, unless bypassed
WipeConfirm(c, with_human, human) ==
    /\ pc[c] = "confirm"
    /\ IF with_human /\ human # "y"
       THEN /\ pc' = [pc EXCEPT ![c] = "done"]
            /\ loc' = [loc EXCEPT ![c] = Empty]
            /\ out' = [out EXCEPT ![c] = [op |-> "cancelled"]]
       ELSE /\ pc' = [pc EXCEPT ![c] = "delete"]
            /\ UNCHANGED <<loc, out>>
    /\ UNCHANGED <<store, pubsub, trail, ret, now, calls>>

\* self.r.delete(*keys)
WipeDelete(c) ==
    /\ pc[c] = "delete"
    /\ rec' = Del(rec, loc[c].keys.rec)
    /\ last' = Del(last, loc[c].keys.last)
    /\ idx' = Del(idx, loc[c].keys.idx)
    /\ meta' = Del(meta, loc[c].meta)
    /\ mark' = Del(mark, loc[c].mark)
    /\ hb' = Del(hb, loc[c].hb)
    /\ names' = IF loc[c].keys.names THEN {} ELSE names
    /\ pc' = [pc EXCEPT ![c] = "srem"]
    /\ UNCHANGED <<pubsub, trail, loc, ret, out, now, calls>>

\* self.r.srem(StrategyNames, strategy_name), and the return
WipeSrem(c) ==
    /\ pc[c] = "srem"
    /\ names' = names \ {strategy_name(c)}
    /\ pc' = [pc EXCEPT ![c] = "done"]
    /\ loc' = [loc EXCEPT ![c] = Empty]
    /\ out' = [out EXCEPT ![c] = [op |-> "wiped"]]
    /\ UNCHANGED <<rec, last, idx, meta, mark, hb, pubsub, trail, ret, now, calls>>

(***************************************************************************)
(* The heartbeat thread, round by round                                    *)
(***************************************************************************)
\* send_heartbeat of __init__: c1 is made with the default True, c2 with False
send_heartbeat(c) == c = "c1"

\* the heartbeat thread of client c, started by __init__ when send_heartbeat
reporter(c) == IF c = "c1" THEN "c1.heartbeat" ELSE "c2.heartbeat"
Reporters == {reporter(c) : c \in {x \in Clients : send_heartbeat(x)}}

HeartbeatFail_raise(c) ==
    /\ send_heartbeat(c)
    /\ pc[reporter(c)] = "set"
    /\ pc' = [pc EXCEPT ![reporter(c)] = "raised"]
    /\ UNCHANGED <<store, pubsub, trail, loc, ret, out, now, calls>>

\* heartbeat_client.set(key, now) goes through
HeartbeatSet(c) ==
    /\ send_heartbeat(c)
    /\ pc[reporter(c)] = "set"
    /\ hb' = Put(hb, strategy_name(c), now)
    /\ pc' = [pc EXCEPT ![reporter(c)] = "sleep"]
    /\ UNCHANGED <<rec, last, idx, meta, mark, names, pubsub, trail, loc, ret, out, now, calls>>

\* heartbeat_client.set raises: "except Exception" logs the error, nothing else
HeartbeatFail(c) ==
    /\ send_heartbeat(c)
    /\ pc[reporter(c)] = "set"
    /\ pc' = [pc EXCEPT ![reporter(c)] = "logged"]
    /\ UNCHANGED <<store, pubsub, trail, loc, ret, out, now, calls>>

\* time.sleep(15) returns, after a write or after a logged failure alike, and
\* "while True" goes round
HeartbeatSleep(c) ==
    /\ send_heartbeat(c)
    /\ pc[reporter(c)] \in {"sleep", "logged"}
    /\ pc' = [pc EXCEPT ![reporter(c)] = "set"]
    /\ UNCHANGED <<store, pubsub, trail, loc, ret, out, now, calls>>

(***************************************************************************)
(* get_last_times as a call, get_last_weights, metadata                    *)
(***************************************************************************)
\* HGETALL of a LastPointer: the hash, or the empty dict when the key is not there
hgetall_last(st, symbol) == IF <<st, symbol>> \in DOMAIN last THEN last[<<st, symbol>>] ELSE Empty

\* get_last_times(symbol) with a str: lines 135-138
LastTimesOne(c, symbol) ==
    /\ Idle(c)
    /\ out' = [out EXCEPT ![c] = [op |-> "last_times", symbol |-> symbol,
                                  rows |-> get_last_times(strategy_name(c), symbol)]]
    /\ pc' = [pc EXCEPT ![c] = "done"]
    /\ UNCHANGED <<store, pubsub, trail, loc, ret, now, calls>>

\* get_last_times(symbols) with a non-empty list: the pipeline of HGETALLs, then
\* the dict comprehension of line 145, where x["symbol"] of an empty row raises
\* KeyError
LastTimesList(c, symbols) ==
    /\ Idle(c)
    /\ symbols # {}
    /\ IF \E symbol \in symbols : hgetall_last(strategy_name(c), symbol) = Empty
       THEN /\ pc' = [pc EXCEPT ![c] = "raised"]
            /\ out' = [out EXCEPT ![c] = [op |-> "raised", by |-> "last_times"]]
       ELSE /\ pc' = [pc EXCEPT ![c] = "done"]
            /\ out' = [out EXCEPT ![c] =
                   [op |-> "last_times", symbols |-> symbols,
                    rows |-> [symbol \in symbols |->
                                 to_datetime(hgetall_last(strategy_name(c), symbol).dt)]]]
    /\ UNCHANGED <<store, pubsub, trail, loc, ret, now, calls>>

\* lines 359-365: the frame of the rows; with no row that has fields the frame has
\* no column and dfw["weight"] raises KeyError; the cells of an empty row are NaN,
\* and NaN != 0 keeps it
last_weights_frame(c, rows, ignore_zero) ==
    IF \A row \in rows : row = Empty
    THEN /\ pc' = [pc EXCEPT ![c] = "raised"]
         /\ out' = [out EXCEPT ![c] = [op |-> "raised", by |-> "last_weights"]]
    ELSE /\ pc' = [pc EXCEPT ![c] = "done"]
         /\ out' = [out EXCEPT ![c] =
                [op |-> "last_weights",
                 rows |-> {row \in rows : row = Empty \/ ~ignore_zero \/ row.weight # 0}]]

\* get_last_weights up to its first answer from the store: with lua the script
\* over <prefix>:<strategy>:*:LAST, filtered by symbols when given; without lua
\* the pipeline over the symbols given, or get_symbols first when none is given
LastWeightsCall(c, symbols, ignore_zero, lua) ==
    /\ Idle(c)
    /\ IF lua
       THEN /\ last_weights_frame(c,
                   {last[k] : k \in {x \in DOMAIN last :
                        x[1] = strategy_name(c) /\ (symbols # {} => x[2] \in symbols)}},
                   ignore_zero)
            /\ loc' = loc
       ELSE IF symbols # {}
            THEN /\ last_weights_frame(c,
                        {hgetall_last(strategy_name(c), symbol) : symbol \in symbols},
                        ignore_zero)
                 /\ loc' = loc
            ELSE /\ pc' = [pc EXCEPT ![c] = "lw_pipe"]
                 /\ loc' = [loc EXCEPT ![c] = [symbols |-> get_symbols(strategy_name(c)),
                                               ignore_zero |-> ignore_zero]]
                 /\ out' = out
    /\ UNCHANGED <<store, pubsub, trail, ret, now, calls>>

\* get_last_weights(lua=False) without symbols: the pipeline over get_symbols()
LastWeightsPipe(c) ==
    /\ pc[c] = "lw_pipe"
    /\ last_weights_frame(c,
           {hgetall_last(strategy_name(c), symbol) : symbol \in loc[c].symbols},
           loc[c].ignore_zero)
    /\ loc' = [loc EXCEPT ![c] = Empty]
    /\ UNCHANGED <<store, pubsub, trail, ret, now, calls>>

\* the metadata property: HGETALL of the META key, an empty dict when it is not there
Metadata(c) ==
    /\ Idle(c)
    /\ out' = [out EXCEPT ![c] =
                   [op |-> "metadata",
                    rows |-> IF strategy_name(c) \in DOMAIN meta
                             THEN meta[strategy_name(c)] ELSE Empty]]
    /\ pc' = [pc EXCEPT ![c] = "done"]
    /\ UNCHANGED <<store, pubsub, trail, loc, ret, now, calls>>

(***************************************************************************)
(* Initial state: an empty store, every client constructed and idle        *)
(***************************************************************************)
Init ==
    /\ rec = Empty
    /\ last = Empty
    /\ idx = Empty
    /\ meta = Empty
    /\ mark = Empty
    /\ hb = Empty
    /\ names = {}
    /\ pubsub = <<>>
    /\ trail = <<>>
    /\ out = [c \in Clients \cup Neighbours |-> [op |-> "none"]]
    /\ pc = [p \in Clients \cup Neighbours \cup Reporters |->
                 IF p \in Reporters THEN "set" ELSE "idle"]
    /\ loc = [c \in Clients \cup Neighbours |-> Empty]
    /\ ret = [c \in Clients \cup Neighbours |-> None]
    /\ now = 0
    /\ calls = <<>>

(***************************************************************************)
(* SpecSeq: one publisher, one symbol, publish with overwrite=False, the   *)
(* event times strictly increasing and the weights pairwise distinct       *)
(***************************************************************************)
SeqPublish ==
    \E dt \in Ticks, w \in Weights :
        /\ \A i \in 1..Len(calls) : calls[i].dt < dt /\ calls[i].weight # w
        /\ PublishCall("c1", "A", dt, w, 0, FALSE)
SeqLua == PublishLua("c1")
NextSeq == SeqPublish \/ SeqLua
SpecSeq == Init /\ [][NextSeq]_vars

SeqKey == <<"S", "A">>
SeqDone == Idle("c1") /\ calls # <<>>
SeqAllOne == \A i \in 1..Len(calls) : calls[i].ret = 1
SeqIndexLen == SeqKey \in DOMAIN idx /\ Cardinality(idx[SeqKey]) = Len(calls)

\* C1 as stated: after any such sequence every call returned 1, the LastPointer
\* holds the time and the weight of the last call, and the index has one member
\* for each call.
C1_AsStated ==
    SeqDone =>
        /\ SeqAllOne
        /\ SeqKey \in DOMAIN last
        /\ last[SeqKey].dt = strftime(calls[Len(calls)].dt)
        /\ last[SeqKey].weight = calls[Len(calls)].weight
        /\ SeqIndexLen

\* each call in a later whole second than the one before, and each weight more
\* than 1e-5 away from the weight of the call before
SeqApart ==
    \A i \in 2..Len(calls) :
        /\ strftime(calls[i - 1].dt) < strftime(calls[i].dt)
        /\ abs(calls[i].weight - calls[i - 1].weight) > Tolerance

\* C1 (amended): when moreover each call falls in a later whole second than the
\* call before it and each weight differs from the weight of the call before it by
\* more than 1e-5, every call returns 1, the LastPointer holds the time of the last
\* call cut to its whole second and the weight of the last call, and the index has
\* one member for each call.
C1_Sequence ==
    (SeqDone /\ SeqApart) =>
        /\ SeqAllOne
        /\ SeqKey \in DOMAIN last
        /\ last[SeqKey].dt = strftime(calls[Len(calls)].dt)
        /\ last[SeqKey].weight = calls[Len(calls)].weight
        /\ SeqIndexLen

C1_Witness == SeqDone /\ SeqApart /\ Len(calls) = 3 /\ ret["c1"] = 1

(***************************************************************************)
(* SpecPub: two publishers of one strategy calling publish for one symbol, *)
(* in either mode, their steps interleaved                                 *)
(***************************************************************************)
PubTicks == Instants({0, 1})
\* two instants of one second and the next whole second
BatchTicks == {0, 1, Res}
PubWeights == {0, 500000, 500005}
\* each publisher quotes its own price
PriceOf(c) == IF c = "c1" THEN 0 ELSE 1

PubPublish ==
    /\ now < MaxPubCalls
    /\ \E c \in Clients, dt \in PubTicks, w \in PubWeights, ow \in BOOLEAN :
           PublishCall(c, "A", dt, w, PriceOf(c), ow)
PubLua == \E c \in Clients : PublishLua(c)
NextPub == PubPublish \/ PubLua
SpecPub == Init /\ [][NextPub]_vars

\* C2: a publish with overwrite=False whose event time is at or before the time of
\* the symbol's LastPointer returns 0 without raising, and changes neither the
\* store nor the broadcasts.
C2_StaleReturnsZero ==
    [][\A c \in Clients, dt \in PubTicks, w \in PubWeights :
        (/\ <<"S", "A">> \in DOMAIN last
         /\ dt <= last[<<"S", "A">>].dt * Res
         /\ PublishCall(c, "A", dt, w, PriceOf(c), FALSE))
        => (/\ pc'[c] = "done"
            /\ ret'[c] = 0
            /\ UNCHANGED <<store, pubsub>>)]_vars

\* a second publish at the very time of the first, with a weight that the script
\* would have accepted, has returned 0
C2_Witness ==
    /\ Len(calls) = 2
    /\ calls[1].ret = 1
    /\ ~calls[2].overwrite
    /\ calls[2].dt = calls[1].dt
    /\ abs(calls[2].weight - calls[1].weight) > Tolerance
    /\ calls[2].ret = 0
    /\ Len(pubsub) = 1

(***************************************************************************)
(* SpecMix: publish_dataframe by one publisher, in either mode, while it   *)
(* and a second publisher of the strategy call publish for the same symbol *)
(***************************************************************************)
MixFrames == Frames(Rows({"A"}, PubTicks, PubWeights), 2)

MixBatch ==
    /\ now = 0
    /\ \E df \in MixFrames, ow \in BOOLEAN, batch_size \in 1..2 :
           batch_size <= Cardinality(df) /\ BatchCall("c1", df, ow, batch_size)
MixPublish ==
    /\ now < MaxMixCalls
    /\ \E c \in Clients, dt \in BatchTicks, w \in {500000, 500005}, ow \in BOOLEAN :
           PublishCall(c, "A", dt, w, PriceOf(c), ow)
MixLua == \E c \in Clients : PublishLua(c)
MixSymbols == BatchSymbols("c1")
MixTimes == BatchTimes("c1")
MixChunk == BatchChunk("c1")
MixDone == BatchDone("c1")
NextMix == MixBatch \/ MixPublish \/ MixLua \/ MixSymbols \/ MixTimes \/ MixChunk \/ MixDone
SpecMix == Init /\ [][NextMix]_vars

\* the triples accepted before the i-th of the history, for the same symbol
Earlier(i) ==
    {j \in 1..(i - 1) : trail[j].ok /\ model_key(trail[j].key) = model_key(trail[i].key)}
Latest(S) == CHOOSE j \in S : \A k \in S : k <= j

\* C3: in transaction order a triple sent without overwrite is accepted exactly
\* when its symbol has had no accepted triple yet (no LastPointer) or its weight is
\* more than 1e-5 away from the weight of the symbol's most recently accepted
\* triple; so an accepted triple sent without overwrite is always more than 1e-5
\* away from the accepted triple just before it.
C3_DedupTolerance ==
    \A i \in 1..Len(trail) :
        trail[i].overwrite = 0 =>
            (trail[i].ok <=>
                (Earlier(i) = {}
                 \/ abs(trail[i].fields.weight - trail[Latest(Earlier(i))].fields.weight)
                        > Tolerance))

\* a weight 5e-6 away from the last one was skipped, and one further away accepted,
\* by triples of the two publishers
C3_Witness ==
    \E i, j \in 1..Len(trail) :
        /\ trail[i].overwrite = 0 /\ trail[j].overwrite = 0
        /\ Earlier(i) # {} /\ Earlier(j) # {}
        /\ ~trail[i].ok /\ trail[i].fields.weight # trail[Latest(Earlier(i))].fields.weight
        /\ trail[j].ok
        /\ trail[i].fields.price # trail[j].fields.price

\* the keys of a script call at positions after i that repeat key i / symbol i
LaterSameKey(keys, i) == {j \in (i + 1)..Len(keys) : keys[j] = keys[i]}
LaterSameSymbol(keys, i) == {j \in (i + 1)..Len(keys) : model_key(keys[j]) = model_key(keys[i])}

\* what a script call over keys and args with overwrite on must leave behind, in
\* the records r, the LastPointers l and the indexes ix
AllWritten(keys, args, r, l, ix) ==
    \A i \in 1..Len(keys) :
        /\ keys[i] \in DOMAIN r
        /\ model_key(keys[i]) \in DOMAIN ix
        /\ keys[i][3] \in ix[model_key(keys[i])]
        /\ model_key(keys[i]) \in DOMAIN l
        /\ LaterSameKey(keys, i) = {} =>
               /\ r[keys[i]].weight = args[3 + 3 * (i - 1)]
               /\ r[keys[i]].update_time = args[2]
        /\ LaterSameSymbol(keys, i) = {} =>
               /\ l[model_key(keys[i])].weight = args[3 + 3 * (i - 1)]
               /\ l[model_key(keys[i])].dt = keys[i][3]

\* C4: with overwrite=True every triple is accepted whatever the LastPointer holds:
\* publish returns 1, a script call over n triples counts n, and the record, the
\* LastPointer and the index entry of each triple are written.
C4_OverwriteAccepts ==
    [][\A c \in Clients :
        /\ (pc[c] = "lua" /\ pc'[c] = "done" /\ loc[c].args[1] # 0)
               => (ret'[c] = 1 /\ AllWritten(loc[c].keys, loc[c].args, rec', last', idx'))
        /\ (pc[c] = "chunk" /\ pc'[c] = "chunk" /\ loc'[c] # loc[c] /\ loc[c].overwrite # 0)
               => LET ks == tmp_keys(loc[c].keys, loc[c].i, loc[c].batch_size)
                      as == tmp_args(loc[c].keys, loc[c].args, loc[c].overwrite,
                                     loc[c].udt, loc[c].i, loc[c].batch_size)
                  IN  /\ loc'[c].pub_cnt = loc[c].pub_cnt + Len(ks)
                      /\ AllWritten(ks, as, rec', last', idx')
        /\ (pc[c] = "chunk" /\ pc'[c] = "done" /\ loc[c].overwrite # 0)
               => ret'[c] = Len(loc[c].keys)]_vars

\* an event stored already is sent again with the same weight in a call with
\* overwrite=True over two triples, and the call returned 2
C4_Witness ==
    /\ Len(trail) = 3
    /\ trail[2].overwrite # 0 /\ trail[3].overwrite # 0
    /\ trail[2].key = trail[1].key
    /\ trail[2].fields.weight = trail[1].fields.weight
    /\ pc["c1"] = "done" /\ ret["c1"] = 2
    /\ calls[Len(calls)].op = "batch" /\ calls[Len(calls)].batch_size = 2

\* the stored event of a symbol with the greatest event time
Greatest(mk) ==
    CHOOSE k \in {x \in DOMAIN rec : model_key(x) = mk} :
        \A x \in {y \in DOMAIN rec : model_key(y) = mk} : x[3] <= k[3]

\* C6 as stated: the weight of every LastPointer is the weight of the stored
\* event of its symbol with the greatest event time.
C6_AsStated ==
    \A mk \in DOMAIN last : last[mk].weight = rec[Greatest(mk)].weight

\* what holds instead: the weight of every LastPointer is the weight of the stored
\* event at the LastPointer's own event time, the event accepted last, which need
\* not be the stored event with the greatest event time.
C6_LastIsStoredEvent ==
    \A mk \in DOMAIN last :
        /\ <<mk[1], mk[2], last[mk].dt>> \in DOMAIN rec
        /\ rec[<<mk[1], mk[2], last[mk].dt>>].weight = last[mk].weight

\* the accepted triples of a symbol, as positions of the history
Accepted(mk) == {j \in 1..Len(trail) : trail[j].ok /\ model_key(trail[j].key) = mk}

\* C10: whatever the interleaving of the publishers, the LastPointer of a symbol
\* holds the fields of the triple accepted last in transaction order, and the
\* record under that triple's key holds the same fields.
C10_LastAcceptedWins ==
    \A mk \in {model_key(trail[j].key) : j \in 1..Len(trail)} :
        Accepted(mk) # {} =>
            /\ mk \in DOMAIN last
            /\ last[mk] = trail[Latest(Accepted(mk))].fields
            /\ trail[Latest(Accepted(mk))].key \in DOMAIN rec
            /\ rec[trail[Latest(Accepted(mk))].key] = trail[Latest(Accepted(mk))].fields

\* both publishers were between their check and their script call at once, and
\* both their triples for one key were accepted
C10_Witness ==
    /\ Len(calls) = 2
    /\ calls[1].client # calls[2].client
    /\ Len(trail) = 2
    /\ trail[1].ok /\ trail[2].ok
    /\ trail[1].key = trail[2].key
    /\ trail[1].overwrite = 0 /\ trail[2].overwrite = 0
    /\ last[model_key(trail[2].key)].price = trail[2].fields.price

(***************************************************************************)
(* SpecBatch: one publisher calling publish_dataframe once, in either      *)
(* mode, for two symbols, on an empty store or after one publish           *)
(***************************************************************************)
BatchFrames == Frames(Rows(Symbols, BatchTicks, PubWeights), MaxRows)

BatchSetup ==
    \E dt \in {0, Res} :
        now = 0 /\ PublishCall("c1", "A", dt, 500000, 0, TRUE)
BatchSetupLua == PublishLua("c1")
BatchBegin ==
    /\ Idle("c1")
    /\ \A i \in 1..Len(calls) : calls[i].op # "batch"
    /\ \E df \in BatchFrames, ow \in BOOLEAN, batch_size \in 1..MaxRows :
           batch_size <= Cardinality(df) /\ BatchCall("c1", df, ow, batch_size)
BatchReadSymbols == BatchSymbols("c1")
BatchReadTimes == BatchTimes("c1")
BatchSend == BatchChunk("c1")
BatchEnd == BatchDone("c1")
NextBatch ==
    \/ BatchSetup \/ BatchSetupLua \/ BatchBegin \/ BatchReadSymbols \/ BatchReadTimes
    \/ BatchSend \/ BatchEnd
SpecBatch == Init /\ [][NextBatch]_vars

\* the rows of a frame whose weight is exactly that of the row just before them in
\* time among the rows of their symbol
Elided(df) ==
    {e \in df : \E f \in df :
        /\ f.symbol = e.symbol /\ f.dt < e.dt /\ f.weight = e.weight
        /\ ~ \E g \in df : g.symbol = e.symbol /\ f.dt < g.dt /\ g.dt < e.dt}

\* the triples the script went through for a finished publish_dataframe call
SentBy(call) ==
    LET Of(t) == t.fields.update_time = call.udt
    IN  SelectSeq(trail, Of)

\* C5: publish_dataframe sends the script exactly its list of rows, and no row
\* whose weight exactly equals that of the row just before it in time for the same
\* symbol is in that list, rows of other symbols in between making no difference;
\* with overwrite=True the list is all the other rows, a row whose weight differs
\* at all from the one before included, and the count returned is their number.
C5_ExactElision ==
    \A i \in 1..Len(calls) :
        calls[i].op = "batch" =>
            LET call == calls[i]
                sent == SentBy(call)
            IN  /\ Len(sent) = Len(call.rows)
                /\ \A k \in 1..Len(sent) :
                       /\ sent[k].key = make_key("S", call.rows[k].symbol, call.rows[k].dt)
                       /\ sent[k].fields.weight = call.rows[k].weight
                /\ \A k \in 1..Len(call.rows) : call.rows[k] \notin Elided(call.df)
                /\ call.ret <= Len(call.rows)
                /\ call.overwrite =>
                       /\ {call.rows[k] : k \in 1..Len(call.rows)} = call.df \ Elided(call.df)
                       /\ call.ret = Cardinality(call.df \ Elided(call.df))

\* two rows of A of one weight with a row of B between them in time, sent in
\* chunks of one: the first row of A and the row of B were submitted and counted
C5_Witness ==
    \E i \in 1..Len(calls) :
        /\ calls[i].op = "batch" /\ calls[i].overwrite /\ calls[i].batch_size = 1
        /\ \E a \in calls[i].df, b \in calls[i].df, e \in calls[i].df :
               /\ a.symbol = "A" /\ e.symbol = "A" /\ b.symbol = "B"
               /\ a.dt < b.dt /\ b.dt < e.dt
               /\ a.weight = e.weight /\ b.weight # a.weight
        /\ Len(calls[i].rows) = 2
        /\ calls[i].ret = 2

(***************************************************************************)
(* SpecRead: one publisher fills the store with one publish_dataframe call *)
(* with overwrite=True; a reader then calls get_hist_weights or            *)
(* get_all_weights once, on the filled store or on the empty one           *)
(***************************************************************************)
ReadWeights == {0, 300000, 500000}
ReadFrames == Frames(Rows(Symbols, {0, Res, 2 * Res}, ReadWeights), MaxRows)
\* the bounds a reader asks for: whole seconds and an instant inside a second
QueryTicks == {0, Res, Res + 1, 2 * Res}

ReadFill ==
    /\ pc["c1"] = "idle" /\ pc["c2"] = "idle"
    /\ \E df \in ReadFrames : BatchCall("c1", df, TRUE, MaxRows)
ReadFillChunk == BatchChunk("c1")
ReadFillDone == BatchDone("c1")
ReadHist ==
    /\ Idle("c1") /\ pc["c2"] = "idle"
    /\ \E symbol \in Symbols, sdt \in QueryTicks, edt \in QueryTicks :
           HistCall("c2", symbol, sdt, edt)
ReadHistFetch == HistFetch("c2")
ReadMatrix ==
    /\ Idle("c1") /\ pc["c2"] = "idle"
    /\ \E sdt \in QueryTicks \cup {None}, edt \in QueryTicks \cup {None} :
           MatrixCall("c2", sdt, edt)
NextRead ==
    \/ ReadFill \/ ReadFillChunk \/ ReadFillDone \/ ReadHist \/ ReadHistFetch \/ ReadMatrix
SpecRead == Init /\ [][NextRead]_vars

\* the stored events of the strategy, of one symbol, and their weight at a time
Stored == {k \in DOMAIN rec : k[1] = "S"}
AtOrBefore(symbol, sec) == {k \in Stored : k[2] = symbol /\ k[3] <= sec}
WeightAt(symbol, sec) ==
    IF AtOrBefore(symbol, sec) = {}
    THEN 0
    ELSE rec[CHOOSE k \in AtOrBefore(symbol, sec) :
                 \A j \in AtOrBefore(symbol, sec) : j[3] <= k[3]].weight
Within(t, sdt, edt) == (sdt = None \/ sdt <= t) /\ (edt = None \/ t <= edt)

\* C7: whenever get_all_weights returns, its rows are exactly one row for each
\* pair of a stored event time T and a symbol S with a stored event, T inside the
\* inclusive range asked for, and the weight of the row is the weight of the
\* latest stored event of S at or before T, or 0 when S has none.
C7_MatrixForwardFill ==
    out["c2"].op = "matrix" =>
        out["c2"].rows =
            {[dt |-> to_datetime(k[3]), symbol |-> j[2], weight |-> WeightAt(j[2], k[3])] :
                k \in {x \in Stored : Within(to_datetime(x[3]), out["c2"].sdt, out["c2"].edt)},
                j \in Stored}

\* events A:t1=0.5, B:t2=0.3, A:t3=0.0 and a range from t2 on: the rows at t2
\* show A=0.5 and B=0.3, those at t3 show A=0.0 and B=0.3, and there is no other
C7_Witness ==
    /\ out["c2"].op = "matrix"
    /\ out["c2"].sdt = Res /\ out["c2"].edt = None
    /\ DOMAIN rec = {<<"S", "A", 0>>, <<"S", "B", 1>>, <<"S", "A", 2>>}
    /\ rec[<<"S", "A", 0>>].weight = 500000
    /\ rec[<<"S", "B", 1>>].weight = 300000
    /\ rec[<<"S", "A", 2>>].weight = 0
    /\ out["c2"].rows =
           {[dt |-> Res, symbol |-> "A", weight |-> 500000],
            [dt |-> Res, symbol |-> "B", weight |-> 300000],
            [dt |-> 2 * Res, symbol |-> "A", weight |-> 0],
            [dt |-> 2 * Res, symbol |-> "B", weight |-> 300000]}

\* what a result of get_hist_weights must be to show exactly the events of keys
HistShows(rows, keys) ==
    /\ Len(rows) = Cardinality(keys)
    /\ \A k \in keys : \E i \in 1..Len(rows) :
           /\ rows[i].dt = to_datetime(k[3])
           /\ rows[i].weight = rec[k].weight
           /\ rows[i].price = rec[k].price
           /\ rows[i].ref = rec[k].ref
    /\ \A i \in 1..Len(rows), j \in 1..Len(rows) : i < j => rows[i].dt < rows[j].dt

\* C8 as stated: get_hist_weights returns exactly the stored events of the symbol
\* with sdt <= t <= edt, in ascending order of time, and never raises.
C8_AsStated ==
    /\ out["c2"].op = "hist" =>
           HistShows(out["c2"].rows,
                     {k \in Stored : /\ k[2] = out["c2"].symbol
                                     /\ out["c2"].sdt <= to_datetime(k[3])
                                     /\ to_datetime(k[3]) <= out["c2"].edt})
    /\ out["c2"].op = "raised" => out["c2"].by # "hist"

\* C8 (amended): get_hist_weights returns exactly the stored events of the symbol
\* whose time t satisfies s <= t <= edt, s being sdt cut to its whole second, each
\* with the weight, price and ref of its record, in ascending order of time; with
\* no such event the result is empty, and the call never raises.
C8_HistoryRange ==
    /\ out["c2"].op = "hist" =>
           HistShows(out["c2"].rows,
                     {k \in Stored : /\ k[2] = out["c2"].symbol
                                     /\ to_datetime(strftime(out["c2"].sdt)) <= to_datetime(k[3])
                                     /\ to_datetime(k[3]) <= out["c2"].edt})
    /\ out["c2"].op = "raised" => out["c2"].by # "hist"

\* a range that starts inside a second and ends on an event's time: the event of
\* the second it starts in and the event at its end are both returned
C8_Witness ==
    /\ out["c2"].op = "hist"
    /\ out["c2"].sdt = Res + 1 /\ out["c2"].edt = 2 * Res
    /\ Len(out["c2"].rows) = 2
    /\ out["c2"].rows[1].dt = Res
    /\ out["c2"].rows[2].dt = 2 * Res
    /\ <<"S", out["c2"].symbol, 0>> \in DOMAIN rec

(***************************************************************************)
(* SpecWipe: a publisher with its heartbeat thread sets metadata, publishes *)
(* and marks its last update, while a second client, made without a        *)
(* heartbeat as clear_strategy makes it, calls clear_all once              *)
(***************************************************************************)
WipeTicks == {0, Res}

WipePublish ==
    /\ now < MaxWipeCalls
    /\ \E dt \in WipeTicks, ow \in BOOLEAN : PublishCall("c1", "A", dt, 500000, 0, ow)
WipeLua == PublishLua("c1")
WipeMeta == now < MaxWipeCalls /\ \E ow \in BOOLEAN : MetaCall("c1", ow)
WipeMetaDelete == MetaDelete("c1")
WipeMetaHset == MetaHset("c1")
WipeMetaSadd == MetaSadd("c1")
WipeUpdateLast == now < MaxWipeCalls /\ UpdateLast("c1")
WipeHeartbeat == Heartbeat("c1")
WipeBegin == pc["c2"] = "idle" /\ WipeKeys("c2")
WipeAsk == \E with_human \in BOOLEAN, human \in {"y", "n"} : WipeConfirm("c2", with_human, human)
WipeDel == WipeDelete("c2")
WipeEnd == WipeSrem("c2")
NextWipe ==
    \/ WipePublish \/ WipeLua \/ WipeMeta \/ WipeMetaDelete \/ WipeMetaHset \/ WipeMetaSadd
    \/ WipeUpdateLast \/ WipeHeartbeat \/ WipeBegin \/ WipeAsk \/ WipeDel \/ WipeEnd
SpecWipe == Init /\ [][NextWipe]_vars

\* nothing of strategy S is in the store
Gone(r, l, ix, m, mk, h, n) ==
    /\ \A k \in DOMAIN r : k[1] # "S"
    /\ \A k \in DOMAIN l : k[1] # "S"
    /\ \A k \in DOMAIN ix : k[1] # "S"
    /\ "S" \notin DOMAIN m
    /\ "S" \notin DOMAIN mk
    /\ "S" \notin DOMAIN h
    /\ "S" \notin n

\* C9 as stated: when a confirmed or bypassed clear_all completes, no event
\* record, LastPointer, index, metadata, last-update marker or liveness key of the
\* strategy exists, the strategy is not in the name set, and the last time of
\* every symbol reads as absent, the publisher and its heartbeat running or not.
C9_AsStated ==
    [][(pc["c2"] = "srem" /\ pc'["c2"] = "done")
           => /\ Gone(rec', last', idx', meta', mark', hb', names')
              /\ \A symbol \in Symbols : get_last_times("S", symbol)' = None]_vars

\* the same wipe with the publisher and its heartbeat at rest from the moment
\* clear_all lists the keys
WipeQuiet == pc["c2"] \in {"idle", "done"}
NextWipeQuiet ==
    \/ (WipeQuiet /\ (WipePublish \/ WipeLua \/ WipeMeta \/ WipeMetaDelete \/ WipeMetaHset
                      \/ WipeMetaSadd \/ WipeUpdateLast \/ WipeHeartbeat))
    \/ WipeBegin \/ WipeAsk \/ WipeDel \/ WipeEnd
SpecWipeQuiet == Init /\ [][NextWipeQuiet]_vars

\* on a store at rest the wipe leaves nothing of the strategy behind
WipeQuietLeavesNothing ==
    [][(pc["c2"] = "srem" /\ pc'["c2"] = "done")
           => /\ Gone(rec', last', idx', meta', mark', hb', names')
              /\ \A symbol \in Symbols : get_last_times("S", symbol)' = None]_vars

(***************************************************************************)
(* SpecBeat: the heartbeat thread of c1 going round, its writes failing or *)
(* not, while c1 and c2, which has no heartbeat thread, publish.  The      *)
(* thread is always scheduled again, and the store is reachable at some    *)
(* round again and again.                                                  *)
(***************************************************************************)
BeatPublish ==
    /\ now < MaxBeatCalls
    /\ \E c \in Clients, dt \in WipeTicks, ow \in BOOLEAN :
           PublishCall(c, "A", dt, 500000, PriceOf(c), ow)
BeatLua == \E c \in Clients : PublishLua(c)
BeatSet == \E c \in Clients : HeartbeatSet(c)
BeatFail == \E c \in Clients : HeartbeatFail(c)
BeatSleep == \E c \in Clients : HeartbeatSleep(c)
NextBeat == BeatPublish \/ BeatLua \/ BeatSet \/ BeatFail \/ BeatSleep
SpecBeat ==
    /\ Init
    /\ [][NextBeat]_vars
    /\ WF_vars(BeatSleep)
    /\ SF_vars(BeatSet)

\* what the publish path reads and writes
PublishPath == <<rec, last, idx, meta, mark, names, pubsub, trail, loc, ret, out, now, calls>>

\* C11: the heartbeat thread of a client made with send_heartbeat=True is always
\* either about to write or asleep, a failed write having been logged or not: it
\* never ends and never raises.  A failed write changes nothing but the thread's
\* own position.  The liveness key is written again and again as long as the
\* store is reachable at some round again and again.  No step of a client made
\* with send_heartbeat=False, and no step but a write of the thread, changes the
\* liveness key.
C11_ReporterKeepsGoing ==
    /\ [](\A r \in Reporters : pc[r] \in {"set", "sleep", "logged"})
    /\ [][(\E r \in Reporters : pc[r] = "set" /\ pc'[r] = "logged")
              => UNCHANGED <<PublishPath, hb>>]_vars
    /\ []<><<BeatSet>>_vars
    /\ [][hb' # hb => (\E r \in Reporters : pc[r] = "set" /\ pc'[r] = "sleep")]_vars
    /\ [](\A c \in Clients : ~send_heartbeat(c) => reporter(c) \notin DOMAIN pc)

\* a write of the liveness key went through, the next one failed and was logged,
\* and the client without a heartbeat thread has published meanwhile
C11_Witness ==
    /\ pc["c1.heartbeat"] = "logged"
    /\ "S" \in DOMAIN hb
    /\ \E i \in 1..Len(calls) : calls[i].client = "c2" /\ calls[i].ret = 1

(***************************************************************************)
(* SpecMissing: a reader calls one read operation on a store that a        *)
(* publisher has left empty or has written one or two events of symbol A   *)
(* and possibly the metadata to                                            *)
(***************************************************************************)
MissPublish ==
    /\ now < MaxPubCalls /\ pc["c2"] = "idle"
    /\ \E dt \in WipeTicks, w \in {0, 500000} : PublishCall("c1", "A", dt, w, 0, TRUE)
MissLua == PublishLua("c1")
MissMeta == now < MaxPubCalls /\ pc["c2"] = "idle" /\ MetaCall("c1", FALSE)
MissMetaHset == MetaHset("c1")
MissMetaSadd == MetaSadd("c1")
MissLastTimesOne == pc["c2"] = "idle" /\ \E symbol \in Symbols : LastTimesOne("c2", symbol)
MissLastTimesList ==
    pc["c2"] = "idle" /\ \E symbols \in SUBSET Symbols : LastTimesList("c2", symbols)
MissLastWeights ==
    /\ pc["c2"] = "idle"
    /\ \E symbols \in SUBSET Symbols, ignore_zero \in BOOLEAN, lua \in BOOLEAN :
           LastWeightsCall("c2", symbols, ignore_zero, lua)
MissLastWeightsPipe == LastWeightsPipe("c2")
MissMatrix == pc["c2"] = "idle" /\ MatrixCall("c2", None, None)
MissHist ==
    /\ pc["c2"] = "idle"
    /\ \E symbol \in Symbols, edt \in WipeTicks : HistCall("c2", symbol, 0, edt)
MissHistFetch == HistFetch("c2")
MissMetadata == pc["c2"] = "idle" /\ Metadata("c2")
NextMissing ==
    \/ MissPublish \/ MissLua \/ MissMeta \/ MissMetaHset \/ MissMetaSadd
    \/ MissLastTimesOne \/ MissLastTimesList \/ MissLastWeights \/ MissLastWeightsPipe
    \/ MissMatrix \/ MissHist \/ MissHistFetch \/ MissMetadata
SpecMissing == Init /\ [][NextMissing]_vars

\* C12 as stated: no read operation ever raises; asked for data that is missing
\* it returns an empty or absent result.
C12_AsStated ==
    \A c \in Clients : pc[c] # "raised" /\ out[c].op # "raised"

\* the reads that do return an absent or empty result on missing data: the last
\* time of one symbol, the history of a symbol, the metadata
MissingReadsThatReturn ==
    /\ out["c2"].op = "raised" => out["c2"].by \in {"last_times", "last_weights", "matrix"}
    /\ (out["c2"].op = "last_times" /\ "symbol" \in DOMAIN out["c2"]
            /\ <<"S", out["c2"].symbol>> \notin DOMAIN last) => out["c2"].rows = None
    /\ (out["c2"].op = "hist" /\ <<"S", out["c2"].symbol>> \notin DOMAIN idx)
           => out["c2"].rows = <<>>
    /\ (out["c2"].op = "metadata" /\ "S" \notin DOMAIN meta) => out["c2"].rows = Empty

\* the rows of a sequence, as a set
RowsOf(rows) == {rows[k] : k \in 1..Len(rows)}

\* C13: publish_dataframe with overwrite=False reads the last times in one step
\* that submits nothing, and from the rows left by the weight filter keeps exactly
\* those whose symbol has no LastPointer at that read or whose time is later than
\* the LastPointer's; every later script call of the same publish_dataframe sends
\* keys of that list only, which does not change any more.  With overwrite=True
\* all the rows left by the weight filter are in the list, whatever the
\* LastPointers hold.
C13_LastTimeFilter ==
    [][/\ (pc["c1"] = "times" /\ pc'["c1"] = "chunk")
            => /\ trail' = trail
               /\ \A e \in RowsOf(loc["c1"].rows) :
                      e \in RowsOf(loc'["c1"].rows)
                          <=> (\/ <<"S", e.symbol>> \notin DOMAIN last
                               \/ e.dt > to_datetime(last[<<"S", e.symbol>>].dt))
               /\ RowsOf(loc'["c1"].rows) \subseteq RowsOf(loc["c1"].rows)
               /\ loc'["c1"].keys = make_keys("S", loc'["c1"].rows)
       /\ (pc["c1"] = "chunk" /\ pc'["c1"] = "chunk")
            => /\ loc'["c1"].rows = loc["c1"].rows /\ loc'["c1"].keys = loc["c1"].keys
               /\ Len(trail') > Len(trail)
               /\ \A j \in (Len(trail) + 1)..Len(trail') :
                      trail'[j].key = loc["c1"].keys[loc["c1"].i + j - Len(trail)]
       /\ (Idle("c1") /\ pc'["c1"] = "chunk")
            => RowsOf(loc'["c1"].rows) = loc'["c1"].df \ Elided(loc'["c1"].df)
      ]_vars

\* after a publish of A, a frame with a row of A at or before that time, a row of
\* A after it and a row of B went through: the last two were submitted
C13_Witness ==
    \E i \in 1..Len(calls) :
        /\ calls[i].op = "batch" /\ ~calls[i].overwrite
        /\ Cardinality(calls[i].df) = 3
        /\ Len(calls[i].rows) = 2
        /\ \E e \in calls[i].df :
               /\ e.symbol = "A" /\ e \notin RowsOf(calls[i].rows)
               /\ e \notin Elided(calls[i].df)
        /\ \E e \in RowsOf(calls[i].rows), f \in RowsOf(calls[i].rows) :
               e.symbol = "A" /\ f.symbol = "B"
        /\ calls[i].ret = 1

\* a step that is a script call made with overwrite=False, by publish or by
\* publish_dataframe
PlainScriptStep ==
    \E c \in Clients :
        \/ pc[c] = "lua" /\ pc'[c] = "done" /\ loc[c].args[1] = 0
        \/ pc[c] = "chunk" /\ pc'[c] = "chunk" /\ loc[c].overwrite = 0

\* C14 as stated: once an event record exists, no script call made with
\* overwrite=False, by any publisher and for any event time of the record's
\* second, changes a field of it or removes it.
C14_AsStated ==
    [][PlainScriptStep => \A k \in DOMAIN rec : k \in DOMAIN rec' /\ rec'[k] = rec[k]]_vars

(***************************************************************************)
(* SpecMeta: two clients of one strategy calling set_metadata, with and    *)
(* without overwrite, their round trips interleaved                        *)
(***************************************************************************)
MetaBegin == now < MaxMetaCalls /\ \E c \in Clients, ow \in BOOLEAN : MetaCall(c, ow)
MetaDel == \E c \in Clients : MetaDelete(c)
MetaWrite == \E c \in Clients : MetaHset(c)
MetaName == \E c \in Clients : MetaSadd(c)
NextMeta == MetaBegin \/ MetaDel \/ MetaWrite \/ MetaName
SpecMeta == Init /\ [][NextMeta]_vars

\* the write of a set_metadata call made without overwrite
PlainMetaWrite(c) == pc[c] = "hset" /\ pc'[c] = "sadd" /\ ~loc[c].overwrite

\* C15 as stated: once the metadata record of the strategy exists, no write of a
\* set_metadata call made without overwrite=True changes it, whether the calls
\* come one after the other or from two clients at once.
C15_AsStated ==
    [][\A c \in Clients :
          (PlainMetaWrite(c) /\ "S" \in DOMAIN meta) => meta' = meta]_vars

\* the same calls, one at a time
NextMetaSeq ==
    \/ (\A c \in Clients : Idle(c)) /\ MetaBegin
    \/ MetaDel \/ MetaWrite \/ MetaName
SpecMetaSeq == Init /\ [][NextMetaSeq]_vars

\* with the calls one after the other, a call made without overwrite changes
\* neither an existing record nor the name set once the record is there
MetaSeqImmutable ==
    [][\A c \in Clients :
          /\ (PlainMetaWrite(c) /\ "S" \in DOMAIN meta) => meta' = meta
          /\ (Idle(c) /\ pc'[c] # pc[c] /\ "S" \in DOMAIN meta /\ pc'[c] = "done")
                 => (meta' = meta /\ names' = names)]_vars

\* the rows of a list are in non-decreasing order of time
InTimeOrder(rows) ==
    \A k \in 1..Len(rows), l \in 1..Len(rows) : k < l => rows[k].dt <= rows[l].dt

\* C16 as stated: in either mode the rows that publish_dataframe submits are in
\* non-decreasing order of event time across all symbols.
C16_AsStated ==
    \A i \in 1..Len(calls) : calls[i].op = "batch" => InTimeOrder(calls[i].rows)

\* with overwrite=True the rows submitted are in non-decreasing order of time; with
\* overwrite=False they are so within each symbol
BatchOrderThatHolds ==
    \A i \in 1..Len(calls) :
        calls[i].op = "batch" =>
            /\ calls[i].overwrite => InTimeOrder(calls[i].rows)
            /\ \A symbol \in Symbols :
                   LET Of(e) == e.symbol = symbol
                   IN  InTimeOrder(SelectSeq(calls[i].rows, Of))

\* the accepted triples, in transaction order
OkTrail ==
    LET Ok(t) == t.ok
    IN  SelectSeq(trail, Ok)
\* the counts returned so far, and the counts of the chunks of the calls under way
RECURSIVE Returned(_)
Returned(cs) == IF cs = <<>> THEN 0 ELSE cs[1].ret + Returned(Tail(cs))
RECURSIVE Running(_)
Running(ps) ==
    IF ps = {} THEN 0
    ELSE LET c == CHOOSE x \in ps : TRUE
         IN  (IF pc[c] = "chunk" THEN loc[c].pub_cnt ELSE 0) + Running(ps \ {c})
LastOkAt(key) ==
    CHOOSE j \in 1..Len(trail) :
        /\ trail[j].ok /\ trail[j].key = key
        /\ \A k \in 1..Len(trail) : (trail[k].ok /\ trail[k].key = key) => k <= j

\* C17: every accepted triple has its index entry, its record and one broadcast on
\* the channel of its symbol, in the order of acceptance, and nothing else has:
\* the records are those of the accepted keys with the fields of the triple
\* accepted last for the key, the index of a symbol holds the times of its
\* records, and there are as many broadcasts as accepted triples.  The count a
\* calls return, with the counts of the chunks of the calls under way, add up to
\* the number of broadcasts, however publish_dataframe cut its rows into chunks.
C17_AllOrNothing ==
    /\ Len(pubsub) = Len(OkTrail)
    /\ \A k \in 1..Len(pubsub) :
           pubsub[k] = message(OkTrail[k].key, OkTrail[k].fields.weight,
                               OkTrail[k].fields.price, OkTrail[k].fields.ref)
    /\ DOMAIN rec = {OkTrail[k].key : k \in 1..Len(OkTrail)}
    /\ \A key \in DOMAIN rec : rec[key] = trail[LastOkAt(key)].fields
    /\ DOMAIN last = {model_key(key) : key \in DOMAIN rec}
    /\ \A mk \in DOMAIN last : \E key \in DOMAIN rec : model_key(key) = mk /\ last[mk] = rec[key]
    /\ DOMAIN idx = DOMAIN last
    /\ \A mk \in DOMAIN idx : idx[mk] = {key[3] : key \in {x \in DOMAIN rec : model_key(x) = mk}}
    /\ Returned(calls) + Running(Clients) = Len(pubsub)

\* a publish_dataframe call over two rows in chunks of one, one row accepted and
\* one rejected, returned 1, the other publisher having had a triple accepted too
C17_Witness ==
    \E i \in 1..Len(calls) :
        /\ calls[i].op = "batch" /\ calls[i].batch_size = 1 /\ Len(calls[i].rows) = 2
        /\ calls[i].ret = 1
        /\ \E j \in 1..Len(trail) : ~trail[j].ok /\ trail[j].key \in {calls[i].keys[k] : k \in 1..2}
        /\ Len(pubsub) = 2
        /\ pubsub[1].price # pubsub[2].price

\* what one transaction over the keys from position i on, with their own
\* arguments, would leave behind from the current store, and the count with it
AsOne(c) ==
    LET n == Len(loc[c].keys)
        r == lua_publish(Db, slice(loc[c].keys, loc[c].i, n),
                         <<loc[c].overwrite, loc[c].udt>>
                             \o slice(loc[c].args, 3 * loc[c].i, 3 * n))
    IN  [db |-> r.db, cnt |-> loc[c].pub_cnt + r.cnt]
\* the triples of the rows at positions a+1 .. b of the list of client c
Sent(c, a, b) ==
    [k \in 1..(b - a) |->
        [key |-> loc[c].keys[a + k], weight |-> loc[c].rows[a + k].weight]]
Tip(n) ==
    [k \in 1..n |->
        [key |-> trail'[Len(trail) + k].key, weight |-> trail'[Len(trail) + k].fields.weight]]
Smaller(a, b) == IF a < b THEN a ELSE b

\* C18: the loop of publish_dataframe starts at the first key, each round hands
\* the script the next batch_size keys (the last round the keys that remain) in
\* the order of the list, each with the weight of its own row, and ends when no
\* key remains, returning the sum of the rounds.  With no other publisher, a
\* round leaves unchanged what one transaction over all the keys not yet sent
\* would end with, so the store and the count at the end are those of a single
\* transaction over the whole list.
C18_Chunking ==
    [][\A c \in Clients :
        /\ (pc[c] # "chunk" /\ pc'[c] = "chunk")
               => loc'[c].i = 0 /\ loc'[c].pub_cnt = 0
        /\ (pc[c] = "chunk" /\ pc'[c] = "chunk" /\ loc'[c] # loc[c])
               => LET n == Len(loc[c].keys)
                      m == Smaller(loc[c].batch_size, n - loc[c].i)
                  IN  /\ loc[c].i < n
                      /\ loc'[c].i = loc[c].i + loc[c].batch_size
                      /\ Len(trail') = Len(trail) + m
                      /\ Tip(m) = Sent(c, loc[c].i, loc[c].i + m)
                      /\ AsOne(c)' = AsOne(c)
        /\ (pc[c] = "chunk" /\ pc'[c] = "done")
               => /\ loc[c].i >= Len(loc[c].keys)
                  /\ ret'[c] = AsOne(c).cnt
                  /\ AsOne(c).db = Db
      ]_vars

\* a finished call that sent three rows in rounds of two, two of them accepted
C18_Witness ==
    \E i \in 1..Len(calls) :
        /\ calls[i].op = "batch" /\ calls[i].batch_size = 2 /\ Len(calls[i].rows) = 3
        /\ calls[i].ret = 2

\* every triple the script has gone through came from a call with overwrite=False
AllNonOverwrite(tr) == \A j \in 1..Len(tr) : tr[j].overwrite = 0

\* C19: as long as every publisher calls with overwrite=False, no step of two
\* publishers running publish and publish_dataframe side by side moves the time
\* of a symbol's LastPointer back.
C19_AsStated ==
    [][AllNonOverwrite(trail')
          => \A mk \in DOMAIN last : mk \in DOMAIN last' /\ last'[mk].dt >= last[mk].dt]_vars

\* the latest row of a symbol in a frame
LatestRow(df, sy) ==
    CHOOSE e \in df : e.symbol = sy /\ \A f \in df : f.symbol = sy => f.dt <= e.dt
\* the publish calls made before the i-th call for a symbol: they set its
\* LastPointer, no other call having run before
Before(i, sy) == {j \in 1..(i - 1) : calls[j].op = "publish" /\ calls[j].symbol = sy}

\* C20: after a publish_dataframe call with overwrite=False by the only
\* publisher, every symbol of the frame whose latest row is later than the
\* LastPointer the symbol had before the call, or that had none, has a
\* LastPointer whose weight is within 1e-5 of the weight of that latest row.
C20_AsStated ==
    \A i \in 1..Len(calls) :
        (calls[i].op = "batch" /\ ~calls[i].overwrite) =>
            \A sy \in {e.symbol : e \in calls[i].df} :
                (\A j \in Before(i, sy) :
                     LatestRow(calls[i].df, sy).dt > to_datetime(strftime(calls[j].dt)))
                => /\ <<strategy_name(calls[i].client), sy>> \in DOMAIN last
                   /\ abs(last[<<strategy_name(calls[i].client), sy>>].weight
                              - LatestRow(calls[i].df, sy).weight) <= Tolerance

(***************************************************************************)
(* SpecFrame: a client of strategy S2 publishes, sets its metadata and its *)
(* last-update marker and sends heartbeats, a client of strategy S         *)
(* publishes, and another client of S runs clear_all                       *)
(***************************************************************************)
FramePublish ==
    /\ now < MaxWipeCalls
    /\ \E c \in {"c1", "c3"}, dt \in WipeTicks : PublishCall(c, "A", dt, 500000, 0, TRUE)
FrameLua == \E c \in {"c1", "c3"} : PublishLua(c)
FrameMeta == now < MaxWipeCalls /\ \E ow \in BOOLEAN : MetaCall("c3", ow)
FrameMetaDelete == MetaDelete("c3")
FrameMetaHset == MetaHset("c3")
FrameMetaSadd == MetaSadd("c3")
FrameUpdateLast == now < MaxWipeCalls /\ UpdateLast("c3")
FrameHeartbeat == Heartbeat("c3")
FrameBegin == pc["c2"] = "idle" /\ WipeKeys("c2")
FrameAsk == \E with_human \in BOOLEAN, human \in {"y", "n"} : WipeConfirm("c2", with_human, human)
FrameDel == WipeDelete("c2")
FrameEnd == WipeSrem("c2")
NextFrame ==
    \/ FramePublish \/ FrameLua \/ FrameMeta \/ FrameMetaDelete \/ FrameMetaHset
    \/ FrameMetaSadd \/ FrameUpdateLast \/ FrameHeartbeat
    \/ FrameBegin \/ FrameAsk \/ FrameDel \/ FrameEnd
SpecFrame == Init /\ [][NextFrame]_vars

\* everything the store holds of strategy st
Held(st) ==
    [rec |-> [k \in {x \in DOMAIN rec : x[1] = st} |-> rec[k]],
     last |-> [k \in {x \in DOMAIN last : x[1] = st} |-> last[k]],
     idx |-> [k \in {x \in DOMAIN idx : x[1] = st} |-> idx[k]],
     meta |-> [k \in DOMAIN meta \cap {st} |-> meta[k]],
     mark |-> [k \in DOMAIN mark \cap {st} |-> mark[k]],
     hb |-> [k \in DOMAIN hb \cap {st} |-> hb[k]],
     names |-> st \in names]

\* C21 as stated: no step of clear_all for strategy S changes an event record,
\* LastPointer, index, metadata record, last-update marker, liveness key or
\* name entry of strategy S2, the name S being the leading part of the name S2.
C21_AsStated ==
    [][pc'["c2"] # pc["c2"] => Held("S2")' = Held("S2")]_vars

\* what clear_all for S does leave alone of S2: the metadata record, the
\* last-update marker and the liveness key
WipeKeepsSinglesOfOthers ==
    [][pc'["c2"] # pc["c2"]
          => /\ Held("S2").meta' = Held("S2").meta
             /\ Held("S2").mark' = Held("S2").mark
             /\ Held("S2").hb' = Held("S2").hb]_vars

(***************************************************************************)
(* SpecAll: one client publishes, with publish and with publish_dataframe, *)
(* in either overwrite mode, while another client of the same strategy     *)
(* runs clear_all                                                          *)
(***************************************************************************)
AllPublish ==
    /\ now < MaxMixCalls
    /\ \E dt \in WipeTicks, ow \in BOOLEAN : PublishCall("c1", "A", dt, 500000, 0, ow)
AllLua == PublishLua("c1")
AllFrames == Frames(Rows({"A"}, WipeTicks, {0, 500000}), 2)
AllBatch ==
    /\ now < MaxMixCalls
    /\ \E df \in AllFrames, ow \in BOOLEAN, batch_size \in 1..2 :
           batch_size <= Cardinality(df) /\ BatchCall("c1", df, ow, batch_size)
AllSymbols == BatchSymbols("c1")
AllTimes == BatchTimes("c1")
AllChunk == BatchChunk("c1")
AllDone == BatchDone("c1")
AllBegin == WipeKeys("c2")
AllAsk == \E with_human \in BOOLEAN, human \in {"y", "n"} : WipeConfirm("c2", with_human, human)
AllDel == WipeDelete("c2")
AllEnd == WipeSrem("c2")
NextAll ==
    \/ AllPublish \/ AllLua \/ AllBatch \/ AllSymbols \/ AllTimes \/ AllChunk \/ AllDone
    \/ AllBegin \/ AllAsk \/ AllDel \/ AllEnd
SpecAll == Init /\ [][NextAll]_vars

\* the members of the index of a symbol, and the times of its records
Members(mk) == IF mk \in DOMAIN idx THEN idx[mk] ELSE {}
Recorded(mk) == {k[3] : k \in {x \in DOMAIN rec : model_key(x) = mk}}

\* C22 as stated: in every reachable state, for every symbol of the strategy the
\* members of its index are the keys of its existing records, and it has a
\* LastPointer exactly when its index is not empty.
C22_AsStated ==
    \A sy \in Symbols :
        /\ Members(<<"S", sy>>) = Recorded(<<"S", sy>>)
        /\ <<"S", sy>> \in DOMAIN last <=> Members(<<"S", sy>>) # {}

====
